---- MODULE Spec2Model ----
(***************************************************************************)
(* Model of app.py: the upload endpoint (content classification, the      *)
(* synchronous image path, the asynchronous video path), the work queue,   *)
(* the worker pool running process_video_job, the Redis job store, and the *)
(* two ways a client watches a job: check_job_status and the event stream  *)
(* of stream_job_progress.                                                 *)
(*                                                                         *)
(* File names are sequences of one-character strings, file contents are    *)
(* sequences of byte values, a Redis hash is a function from field names   *)
(* to values (the empty function is a key that does not exist).            *)
(***************************************************************************)
EXTENDS Integers, Sequences, FiniteSets, TLC

\* ------------------------------------------------------------------ bounds

\* Number of worker threads (app.py reads it from the environment, default 5).
MAX_WORKER_THREADS == 2

\* Number of video submissions a behaviour may hold (one job id each).
MaxJobs == 3

\* Number of requests the endpoint takes up in a behaviour.
MaxRequests == 3

\* Number of samples generate() takes before it gives up (600 in app.py).
max_retries == 3

\* ------------------------------------------------------- python helpers

Range(s) == {s[i] : i \in 1..Len(s)}

\* bytes.startswith
StartsWith(content, prefix) ==
    /\ Len(prefix) <= Len(content)
    /\ \A i \in 1..Len(prefix) : content[i] = prefix[i]

\* str.lower on one character of the alphabet the requests use
LowerChar(c) ==
    CASE c = "A" -> "a"
      [] c = "G" -> "g"
      [] c = "I" -> "i"
      [] c = "M" -> "m"
      [] c = "N" -> "n"
      [] c = "P" -> "p"
      [] c = "V" -> "v"
      [] OTHER -> c

Lower(s) == [i \in 1..Len(s) |-> LowerChar(s[i])]

HasDot(s) == "." \in Range(s)

LastDot(s) == CHOOSE i \in 1..Len(s) : s[i] = "." /\ \A k \in (i+1)..Len(s) : s[k] # "."

\* s.rsplit('.', 1): one part when s has no dot, else the text before and after the last dot
RSplitDot(s) ==
    IF HasDot(s)
    THEN <<SubSeq(s, 1, LastDot(s) - 1), SubSeq(s, LastDot(s) + 1, Len(s))>>
    ELSE <<s>>

\* str.strip("._")
RECURSIVE StripLeft(_)
StripLeft(s) ==
    IF s # <<>> /\ Head(s) \in {".", "_"} THEN StripLeft(Tail(s)) ELSE s

RECURSIVE StripRight(_)
StripRight(s) ==
    IF s # <<>> /\ s[Len(s)] \in {".", "_"} THEN StripRight(SubSeq(s, 1, Len(s) - 1)) ELSE s

\* The characters werkzeug's secure_filename keeps (of the request alphabet)
SafeChars == {"a", "b", "e", "g", "i", "m", "n", "p", "t", "v", "w", "x", "4",
              "A", "G", "I", "M", "N", "P", "V", ".", "_", "-"}

RECURSIVE FilterSafe(_)
FilterSafe(s) ==
    IF s = <<>> THEN <<>>
    ELSE IF Head(s) \in SafeChars THEN <<Head(s)>> \o FilterSafe(Tail(s))
    ELSE FilterSafe(Tail(s))

\* werkzeug.utils.secure_filename on a name without whitespace or path separators:
\* drop the characters outside [A-Za-z0-9_.-], then strip "." and "_" from both ends
secure_filename(s) == StripRight(StripLeft(FilterSafe(s)))

\* --------------------------------------------------------- configuration

ALLOWED_IMAGE_EXTENSIONS ==
    { <<"j","p","g">>, <<"j","p","e","g">>, <<"p","n","g">>, <<"g","i","f">>,
      <<"w","e","b","p">> }

ALLOWED_VIDEO_EXTENSIONS ==
    { <<"m","p","4">>, <<"m","o","v">>, <<"a","v","i">>, <<"m","k","v">>,
      <<"w","e","b","m">> }

ALLOWED_EXTENSIONS == ALLOWED_IMAGE_EXTENSIONS \cup ALLOWED_VIDEO_EXTENSIONS

\* ------------------------------------------------------------ classifier

allowed_file(filename) ==
    /\ HasDot(filename)
    /\ Lower(RSplitDot(filename)[2]) \in ALLOWED_EXTENSIONS

\* "IndexError" when the name has no dot: rsplit gives one part and [1] raises
get_file_type(filename) ==
    IF Len(RSplitDot(filename)) < 2 THEN "IndexError"
    ELSE LET ext == Lower(RSplitDot(filename)[2])
         IN  IF ext \in ALLOWED_IMAGE_EXTENSIONS THEN "image"
             ELSE IF ext \in ALLOWED_VIDEO_EXTENSIONS THEN "video"
             ELSE "None"

SigJPEG == <<255, 216, 255>>
SigPNG == <<137, 80, 78, 71, 13, 10, 26, 10>>
SigGIF87a == <<71, 73, 70, 56, 55, 97>>
SigGIF89a == <<71, 73, 70, 56, 57, 97>>
SigRIFF == <<82, 73, 70, 70>>
SigMP42 == <<0, 0, 0, 24, 102, 116, 121, 112, 109, 112, 52, 50>>
SigISOM == <<0, 0, 0, 28, 102, 116, 121, 112, 105, 115, 111, 109>>
SigFTYP == <<0, 0, 0, 32, 102, 116, 121, 112>>

\* The dict literal as written: key, then the mime type as <<major, minor>>
MagicLiteral ==
    << <<SigJPEG, <<"image", "jpeg">> >>,
       <<SigPNG, <<"image", "png">> >>,
       <<SigGIF87a, <<"image", "gif">> >>,
       <<SigGIF89a, <<"image", "gif">> >>,
       <<SigRIFF, <<"image", "webp">> >>,
       <<SigMP42, <<"video", "mp4">> >>,
       <<SigISOM, <<"video", "mp4">> >>,
       <<SigFTYP, <<"video", "mp4">> >>,
       <<SigRIFF, <<"video", "avi">> >> >>

\* A Python dict built from a literal: a repeated key keeps the position of its
\* first occurrence and the value of its last
PyDictItems(lit) ==
    LET firsts == {i \in 1..Len(lit) : \A k \in 1..(i-1) : lit[k][1] # lit[i][1]}
        lastOf(i) == CHOOSE k \in 1..Len(lit) :
                        /\ lit[k][1] = lit[i][1]
                        /\ \A m \in (k+1)..Len(lit) : lit[m][1] # lit[i][1]
        keep == [i \in 1..Len(lit) |-> i \in firsts]
        RECURSIVE build(_)
        build(i) == IF i > Len(lit) THEN <<>>
                    ELSE IF keep[i] THEN << <<lit[i][1], lit[lastOf(i)][2]>> >> \o build(i + 1)
                    ELSE build(i + 1)
    IN  build(1)

magic_numbers == PyDictItems(MagicLiteral)

\* expected_type with the test on the mime type inverted
expected_type_Inverted(content) ==
    LET hits == {i \in 1..Len(magic_numbers) : StartsWith(content, magic_numbers[i][1])}
    IN  IF hits = {} THEN "unknown"
        ELSE LET i == CHOOSE x \in hits : \A y \in hits : x <= y
             IN  IF magic_numbers[i][2][1] = "image" THEN "video" ELSE "image"

\* The category the first matching signature implies, "unknown" when none matches
expected_type(content) ==
    LET hits == {i \in 1..Len(magic_numbers) : StartsWith(content, magic_numbers[i][1])}
    IN  IF hits = {} THEN "unknown"
        ELSE LET i == CHOOSE x \in hits : \A y \in hits : x <= y
             IN  IF magic_numbers[i][2][1] = "image" THEN "image" ELSE "video"

validate_file_content(content, claimed_type) ==
    IF expected_type(content) = "unknown" THEN TRUE
    ELSE expected_type(content) = claimed_type

\* ------------------------------------------------------------ the state

VARIABLES
    store,      \* Redis: job id -> the hash stored under "job:<id>" (empty: no such key)
    ttl,        \* Redis: job id -> whether an expiry is set on the key
    files,      \* the temporary files that exist on local storage
    queue,      \* video_processing_queue: the work items, oldest first
    hpc,        \* job id -> how far the request that generated this id has come
    hctx,       \* job id -> what that request holds: its ordinal and the secured file name
    wpc,        \* worker -> its position in video_worker / process_video_job
    wjob,       \* worker -> the work item it took from the queue
    wres,       \* worker -> upload_result
    req,        \* the request the endpoint classified last
    resp,       \* the response the endpoint sent last (n: the ordinal of the request it answers)
    nreq,       \* number of requests the endpoint has taken up
    writes,     \* history: job id -> the status written to its record last, and whether
                \* every status write so far moved forward
    delivered,  \* history: job id -> how many times its work item left the queue
    qresp,      \* the response check_job_status sent last
    spc,        \* the stream: "idle" before generate() runs, "loop" between two samples,
                \* "done" once generate() has returned
    sjob,       \* the stream: the job id of the request
    last_status,    \* generate(): last_status
    retry_count,    \* generate(): retry_count
    frames,     \* the stream: the frames generate() has yielded, oldest first
    sampled,    \* history: how many times generate() has read the record
    sopen       \* history: the record as it was when generate() started

vars == <<store, ttl, files, queue, hpc, hctx, wpc, wjob, wres,
          req, resp, nreq, writes, delivered,
          qresp, spc, sjob, last_status, retry_count, frames, sampled, sopen>>

hvars == <<hpc, hctx>>
wvars == <<wpc, wjob, wres>>
rvars == <<req, resp, nreq>>
svars == <<spc, sjob, last_status, retry_count, frames, sampled, sopen>>
ovars == <<qresp, svars>>

JobIds == 1..MaxJobs
Workers == 1..MAX_WORKER_THREADS

\* ------------------------------------------------------------- Redis

NoHash == [f \in {} |-> ""]

Exists(key) == DOMAIN store[key] # {}

\* HSET key field value: creates the hash when the key does not exist
HSet(h, field, value) ==
    [f \in DOMAIN h \cup {field} |-> IF f = field THEN value ELSE h[f]]

\* HMSET key mapping: all the fields of the mapping in one command
HMSet(h, mapping) ==
    [f \in DOMAIN h \cup DOMAIN mapping |-> IF f \in DOMAIN mapping THEN mapping[f] ELSE h[f]]

Status(key) == IF "status" \in DOMAIN store[key] THEN store[key]["status"] ELSE "none"

Terminal == {"completed", "failed"}

\* The order of the status values: queued, processing, uploading, then the terminal ones
Rank(status) ==
    CASE status = "queued" -> 1
      [] status = "processing" -> 2
      [] status = "uploading" -> 3
      [] status \in Terminal -> 4
      [] OTHER -> 0

\* History of the status writes to one record: a write moves forward when it is
\* the first and writes queued, or writes a status of higher rank than the last
WriteStatus(key, status) ==
    writes' = [writes EXCEPT ![key] =
                  [last |-> status,
                   forward |-> /\ @.forward
                               /\ IF @.last = "none" THEN status = "queued"
                                  ELSE Rank(status) > Rank(@.last)]]

\* ------------------------------------------------------- temporary files

SrcPath(j) == <<"upload", j>>
OutPath(j) == <<"compressed", j>>

NoJob == [job_id |-> 0, file_path |-> <<"none", 0>>, original_filename |-> <<>>]
NoResult == [secure_url |-> "none", public_id |-> "none"]
NoRequest == [has_file |-> FALSE, filename |-> <<>>, content |-> <<>>]
NoResponse == [n |-> 0, code |-> 0, body |-> "none", job_id |-> 0]
NoSnapshot == [job_id |-> 0, code |-> 0, body |-> <<>>]

Init ==
    /\ store = [j \in JobIds |-> NoHash]
    /\ ttl = [j \in JobIds |-> FALSE]
    /\ files = {}
    /\ queue = <<>>
    /\ hpc = [j \in JobIds |-> "unused"]
    /\ hctx = [j \in JobIds |-> [n |-> 0, filename |-> <<>>]]
    /\ wpc = [w \in Workers |-> "get"]
    /\ wjob = [w \in Workers |-> NoJob]
    /\ wres = [w \in Workers |-> NoResult]
    /\ req = NoRequest
    /\ resp = NoResponse
    /\ nreq = 0
    /\ writes = [j \in JobIds |-> [last |-> "none", forward |-> TRUE]]
    /\ delivered = [j \in JobIds |-> 0]
    /\ qresp = NoSnapshot
    /\ spc = "idle"
    /\ sjob = 0
    /\ last_status = "None"
    /\ retry_count = 0
    /\ frames = <<>>
    /\ sampled = 0
    /\ sopen = <<>>

\* ------------------------------------------------------------ requests

NamePng == <<"a", ".", "p", "n", "g">>
NamePngUpper == <<"a", ".", "P", "N", "G">>
NameWebp == <<"i", ".", "w", "e", "b", "p">>
NameMp4 == <<"v", ".", "m", "p", "4">>
NameAviUpper == <<"v", ".", "A", "V", "I">>
NameTxt == <<"a", ".", "t", "x", "t">>
NameNoDot == <<"p", "n", "g">>
NameDotPng == <<".", "p", "n", "g">>
NameEmpty == <<>>

Names == {NamePng, NamePngUpper, NameWebp, NameMp4, NameAviUpper, NameTxt,
          NameNoDot, NameDotPng, NameEmpty}

BytesJPEG == SigJPEG \o <<224, 0>>
BytesPNG == SigPNG \o <<0>>
BytesGIF == SigGIF89a \o <<1>>
BytesWEBP == SigRIFF \o <<36, 0, 0, 0, 87, 69, 66, 80>>
BytesAVI == SigRIFF \o <<36, 0, 0, 0, 65, 86, 73, 32>>
BytesMP4 == SigISOM \o <<0, 0>>
BytesTruncated == <<255, 216>>
BytesOther == <<26, 69, 223, 163>>
BytesNone == <<>>

Contents == {BytesJPEG, BytesPNG, BytesGIF, BytesWEBP, BytesAVI, BytesMP4,
             BytesTruncated, BytesOther, BytesNone}

FileUpload(name, content) == [has_file |-> TRUE, filename |-> name, content |-> content]

\* Every request of the endpoint specification
AllRequests == {NoRequest} \cup {FileUpload(n, c) : n \in Names, c \in Contents}

\* The video submissions of the pipeline specification
VideoRequests == {FileUpload(NameMp4, BytesMP4)}

\* ------------------------------------------------- upload_and_compress

\* Lines 344-364: the reason the request is turned away before the try block,
\* "IndexError" when get_file_type raises, "none" when the request passes
RejectReason(r) ==
    IF ~r.has_file THEN "No file part in the request"
    ELSE IF r.filename = <<>> THEN "No selected file"
    ELSE IF ~allowed_file(r.filename) THEN "Unsupported file type"
    ELSE IF get_file_type(secure_filename(r.filename)) = "IndexError" THEN "IndexError"
    ELSE IF ~validate_file_content(r.content, get_file_type(secure_filename(r.filename)))
         THEN "File content doesn't match its extension"
    ELSE "none"

ResourceType(r) == get_file_type(secure_filename(r.filename))

Respond(r, code, body) ==
    /\ req' = r
    /\ resp' = [n |-> nreq + 1, code |-> code, body |-> body, job_id |-> 0]
    /\ nreq' = nreq + 1

\* Reject with the upload saved to its temporary file before it is validated
RejectAfterSaving(r) ==
    /\ nreq < MaxRequests
    /\ RejectReason(r) \notin {"none", "IndexError"}
    /\ Respond(r, 400, RejectReason(r))
    /\ files' = files \cup {<<"upload", nreq + 1>>}
    /\ UNCHANGED <<ovars, store, ttl, queue, hvars, wvars, writes, delivered>>

\* The request is answered 400 before anything is persisted
Reject(r) ==
    /\ nreq < MaxRequests
    /\ RejectReason(r) \notin {"none", "IndexError"}
    /\ Respond(r, 400, RejectReason(r))
    /\ UNCHANGED <<ovars, store, ttl, files, queue, hvars, wvars, writes, delivered>>

\* get_file_type raises outside the try block: the framework answers 500
Crash(r) ==
    /\ nreq < MaxRequests
    /\ RejectReason(r) = "IndexError"
    /\ Respond(r, 500, "Internal Server Error")
    /\ UNCHANGED <<ovars, store, ttl, files, queue, hvars, wvars, writes, delivered>>

\* The image path leaving a job record behind when the compression or the upload fails
ImagePathRecordsFailure(r) ==
    /\ nreq < MaxRequests
    /\ RejectReason(r) = "none"
    /\ ResourceType(r) = "image"
    /\ \E outcome \in {"ok", "compress_none", "upload_raises"} :
          /\ CASE outcome = "ok" ->
                    Respond(r, 200, "Image compressed and uploaded successfully")
               [] outcome = "compress_none" ->
                    Respond(r, 500, "Failed to compress image")
               [] outcome = "upload_raises" ->
                    Respond(r, 500, "An internal server error occurred")
          /\ store' = IF outcome = "ok" THEN store
                      ELSE [store EXCEPT ![nreq + 1] = HMSet(@, [status |-> "failed"])]
    /\ UNCHANGED <<ovars, ttl, files, queue, hvars, wvars, writes, delivered>>

\* Lines 367-390 and 426-428: compress_image gives a buffer or None, the upload
\* returns or raises
ImagePath(r) ==
    /\ nreq < MaxRequests
    /\ RejectReason(r) = "none"
    /\ ResourceType(r) = "image"
    /\ \E outcome \in {"ok", "compress_none", "upload_raises"} :
          CASE outcome = "ok" ->
                    Respond(r, 200, "Image compressed and uploaded successfully")
            [] outcome = "compress_none" ->
                    Respond(r, 500, "Failed to compress image")
            [] outcome = "upload_raises" ->
                    Respond(r, 500, "An internal server error occurred")
    /\ UNCHANGED <<ovars, store, ttl, files, queue, hvars, wvars, writes, delivered>>

\* uuid.uuid4(): an id no request has been given
FreshId == CHOOSE j \in JobIds : hpc[j] = "unused" /\ \A k \in JobIds : hpc[k] = "unused" => j <= k

\* VideoAccept with the put moved ahead of the HMSET: the work item is on the queue
\* while the record is still to be written
VideoAcceptPutsFirst(r) ==
    /\ nreq < MaxRequests
    /\ RejectReason(r) = "none"
    /\ ResourceType(r) = "video"
    /\ \E j \in JobIds : hpc[j] = "unused"
    /\ files' = files \cup {SrcPath(FreshId)}
    /\ queue' = Append(queue, [job_id |-> FreshId, file_path |-> SrcPath(FreshId),
                               original_filename |-> secure_filename(r.filename)])
    /\ hpc' = [hpc EXCEPT ![FreshId] = "recorded"]
    /\ hctx' = [hctx EXCEPT ![FreshId] = [n |-> nreq + 1, filename |-> secure_filename(r.filename)]]
    /\ req' = r
    /\ nreq' = nreq + 1
    /\ UNCHANGED <<ovars, store, ttl, wvars, resp, writes, delivered>>

\* Lines 392-410: the video is saved to a temporary file under a fresh job id and
\* the job record is written with status queued
VideoAccept(r) ==
    /\ nreq < MaxRequests
    /\ RejectReason(r) = "none"
    /\ ResourceType(r) = "video"
    /\ \E j \in JobIds : hpc[j] = "unused"
    /\ files' = files \cup {SrcPath(FreshId)}
    /\ store' = [store EXCEPT ![FreshId] =
                    HMSet(@, [job_id |-> FreshId, status |-> "queued",
                              original_filename |-> secure_filename(r.filename),
                              created_at |-> "time"])]
    /\ WriteStatus(FreshId, "queued")
    /\ hpc' = [hpc EXCEPT ![FreshId] = "recorded"]
    /\ hctx' = [hctx EXCEPT ![FreshId] = [n |-> nreq + 1, filename |-> secure_filename(r.filename)]]
    /\ req' = r
    /\ nreq' = nreq + 1
    /\ UNCHANGED <<ovars, ttl, queue, wvars, resp, delivered>>

\* queue.Queue() is built with maxsize 0
QueueMaxsize == 0

\* Queue.put blocks only when maxsize > 0 and the queue holds maxsize items
PutEnabled == QueueMaxsize <= 0 \/ Len(queue) < QueueMaxsize

\* Lines 412-424: the work item is put on the queue and the request answered 202
Enqueue(j) ==
    /\ hpc[j] = "recorded"
    /\ PutEnabled
    /\ queue' = Append(queue, [job_id |-> j, file_path |-> SrcPath(j),
                               original_filename |-> hctx[j].filename])
    /\ resp' = [n |-> hctx[j].n, code |-> 202, body |-> "Video compression job created",
                job_id |-> j]
    /\ hpc' = [hpc EXCEPT ![j] = "done"]
    /\ UNCHANGED <<ovars, store, ttl, files, hctx, wvars, req, nreq, writes, delivered>>

\* ------------------------------------- video_worker / process_video_job

Job(w) == wjob[w].job_id

Goto(w, pc) == wpc' = [wpc EXCEPT ![w] = pc]

\* Return with the worker thread ending instead of looping
ReturnThreadExits(w) ==
    /\ wpc' = [wpc EXCEPT ![w] = "exited"]
    /\ wjob' = [wjob EXCEPT ![w] = NoJob]
    /\ wres' = [wres EXCEPT ![w] = NoResult]

\* process_video_job returns; video_worker calls task_done and waits for the next item
Return(w) ==
    /\ wpc' = [wpc EXCEPT ![w] = "get"]
    /\ wjob' = [wjob EXCEPT ![w] = NoJob]
    /\ wres' = [wres EXCEPT ![w] = NoResult]

\* Raise with no handler in process_video_job or video_worker: the thread ends
RaiseThreadExits(w) == wpc' = [wpc EXCEPT ![w] = "exited"]

\* An exception reaches the except clause of process_video_job
Raise(w) == wpc' = [wpc EXCEPT ![w] = "except"]

\* Get that reads the oldest item and leaves it on the queue
GetWithoutRemoving(w) ==
    /\ wpc[w] = "get"
    /\ queue # <<>>
    /\ wjob' = [wjob EXCEPT ![w] = Head(queue)]
    /\ delivered' = [delivered EXCEPT ![Head(queue).job_id] = @ + 1]
    /\ Goto(w, "processing")
    /\ UNCHANGED <<ovars, store, ttl, files, queue, hvars, wres, rvars, writes>>

\* Line 296: Queue.get takes the oldest item off the queue
Get(w) ==
    /\ wpc[w] = "get"
    /\ queue # <<>>
    /\ wjob' = [wjob EXCEPT ![w] = Head(queue)]
    /\ queue' = Tail(queue)
    /\ delivered' = [delivered EXCEPT ![Head(queue).job_id] = @ + 1]
    /\ Goto(w, "processing")
    /\ UNCHANGED <<ovars, store, ttl, files, hvars, wres, rvars, writes>>

\* Line 231
SetProcessing(w) ==
    /\ wpc[w] = "processing"
    /\ store' = [store EXCEPT ![Job(w)] = HSet(@, "status", "processing")]
    /\ WriteStatus(Job(w), "processing")
    /\ Goto(w, "transcode")
    /\ UNCHANGED <<ovars, ttl, files, queue, hvars, wjob, wres, rvars, delivered>>

\* Transcode with the source file removed on the success path only
TranscodeKeepsSourceOnFailure(w) ==
    /\ wpc[w] = "transcode"
    /\ \E ok \in BOOLEAN :
          /\ ok => wjob[w].file_path \in files
          /\ files' = IF ok
                      THEN (files \cup {OutPath(Job(w))}) \ {wjob[w].file_path}
                      ELSE files \ {OutPath(Job(w))}
          /\ Goto(w, IF ok THEN "uploading" ELSE "failed_status")
    /\ UNCHANGED <<ovars, store, ttl, queue, hvars, wjob, wres, rvars, writes, delivered>>

\* Lines 233-247: the output file is created, compress_video answers True or
\* False (never True when the source file is missing: ffprobe fails), os.unlink
\* removes the source file or raises FileNotFoundError, and after a failed
\* compression the output file is removed
Transcode(w) ==
    /\ wpc[w] = "transcode"
    /\ \E ok \in BOOLEAN :
          /\ ok => wjob[w].file_path \in files
          /\ IF wjob[w].file_path \notin files
             THEN /\ files' = files \cup {OutPath(Job(w))}
                  /\ Raise(w)
             ELSE /\ files' = IF ok
                                THEN (files \cup {OutPath(Job(w))}) \ {wjob[w].file_path}
                                ELSE files \ {wjob[w].file_path, OutPath(Job(w))}
                  /\ Goto(w, IF ok THEN "uploading" ELSE "failed_status")
    /\ UNCHANGED <<ovars, store, ttl, queue, hvars, wjob, wres, rvars, writes, delivered>>

\* Line 248
SetFailed(w) ==
    /\ wpc[w] = "failed_status"
    /\ store' = [store EXCEPT ![Job(w)] = HSet(@, "status", "failed")]
    /\ WriteStatus(Job(w), "failed")
    /\ Goto(w, "failed_error")
    /\ UNCHANGED <<ovars, ttl, files, queue, hvars, wjob, wres, rvars, delivered>>

\* SetError without the return that follows it: the function goes on to the upload
SetErrorFallsThrough(w) ==
    /\ wpc[w] = "failed_error"
    /\ store' = [store EXCEPT ![Job(w)] = HSet(@, "error", "Video compression failed")]
    /\ Goto(w, "uploading")
    /\ UNCHANGED <<ovars, ttl, files, queue, hvars, wjob, wres, rvars, writes, delivered>>

\* Lines 249-251
SetError(w) ==
    /\ wpc[w] = "failed_error"
    /\ store' = [store EXCEPT ![Job(w)] = HSet(@, "error", "Video compression failed")]
    /\ Return(w)
    /\ UNCHANGED <<ovars, ttl, files, queue, hvars, rvars, writes, delivered>>

\* Line 255
SetUploading(w) ==
    /\ wpc[w] = "uploading"
    /\ store' = [store EXCEPT ![Job(w)] = HSet(@, "status", "uploading")]
    /\ WriteStatus(Job(w), "uploading")
    /\ Goto(w, "upload")
    /\ UNCHANGED <<ovars, ttl, files, queue, hvars, wjob, wres, rvars, delivered>>

\* Lines 257-266: cloudinary.uploader.upload returns the asset or raises; after
\* it returns, os.unlink removes the output file
Upload(w) ==
    /\ wpc[w] = "upload"
    /\ \/ /\ wres' = [wres EXCEPT ![w] = [secure_url |-> "url", public_id |-> "id"]]
          /\ files' = files \ {OutPath(Job(w))}
          /\ Goto(w, "completed")
       \/ /\ Raise(w)
          /\ UNCHANGED <<wres, files>>
    /\ UNCHANGED <<ovars, store, ttl, queue, hvars, wjob, rvars, writes, delivered>>

\* Lines 269-278: one HMSET carries the status and the result
SetCompleted(w) ==
    /\ wpc[w] = "completed"
    /\ store' = [store EXCEPT ![Job(w)] =
                    HMSet(@, [status |-> "completed",
                              message |-> "Video compressed and uploaded successfully",
                              original_filename |-> wjob[w].original_filename,
                              cloudinary_url |-> wres[w].secure_url,
                              public_id |-> wres[w].public_id,
                              completed_at |-> "time"])]
    /\ WriteStatus(Job(w), "completed")
    /\ Goto(w, "expire")
    /\ UNCHANGED <<ovars, ttl, files, queue, hvars, wjob, wres, rvars, delivered>>

\* EXPIRE key seconds: no effect on a key that does not exist
Expire(key) == ttl' = [ttl EXCEPT ![key] = @ \/ Exists(key)]

\* Line 282
ExpireCompleted(w) ==
    /\ wpc[w] = "expire"
    /\ Expire(Job(w))
    /\ Return(w)
    /\ UNCHANGED <<ovars, store, files, queue, hvars, rvars, writes, delivered>>

\* ExceptRecord that records the error and leaves the status as it was
ExceptRecordErrorOnly(w) ==
    /\ wpc[w] = "except"
    /\ store' = [store EXCEPT ![Job(w)] = HSet(@, "error", "str(e)")]
    /\ Goto(w, "except_expire")
    /\ UNCHANGED <<ovars, ttl, files, queue, hvars, wjob, wres, rvars, writes, delivered>>

\* Lines 284-289: one HMSET carries the status and the error
ExceptRecord(w) ==
    /\ wpc[w] = "except"
    /\ store' = [store EXCEPT ![Job(w)] =
                    HMSet(@, [status |-> "failed", error |-> "str(e)"])]
    /\ WriteStatus(Job(w), "failed")
    /\ Goto(w, "except_expire")
    /\ UNCHANGED <<ovars, ttl, files, queue, hvars, wjob, wres, rvars, delivered>>

\* Line 290
ExceptExpire(w) ==
    /\ wpc[w] = "except_expire"
    /\ Expire(Job(w))
    /\ Return(w)
    /\ UNCHANGED <<ovars, store, files, queue, hvars, rvars, writes, delivered>>

Worker(w) ==
    \/ Get(w)
    \/ SetProcessing(w)
    \/ Transcode(w)
    \/ SetFailed(w)
    \/ SetError(w)
    \/ SetUploading(w)
    \/ Upload(w)
    \/ SetCompleted(w)
    \/ ExpireCompleted(w)
    \/ ExceptRecord(w)
    \/ ExceptExpire(w)

\* ------------------------------------------------------------ expiry

\* Redis reclaims a key whose expiry has passed
Reclaim(j) ==
    /\ ttl[j]
    /\ Exists(j)
    /\ store' = [store EXCEPT ![j] = NoHash]
    /\ ttl' = [ttl EXCEPT ![j] = FALSE]
    /\ UNCHANGED <<ovars, files, queue, hvars, wvars, rvars, writes, delivered>>

\* The Redis server drops a key whatever its expiry: eviction under a maxmemory
\* policy, a restart without persistence, a DEL or FLUSHDB from another client
Evict(j) ==
    /\ Exists(j)
    /\ store' = [store EXCEPT ![j] = NoHash]
    /\ ttl' = [ttl EXCEPT ![j] = FALSE]
    /\ UNCHANGED <<ovars, files, queue, hvars, wvars, rvars, writes, delivered>>

\* ---------------------------------------------------- check_job_status

\* result.get('status'): None when the hash has no such field
result_get_status(result) ==
    IF "status" \in DOMAIN result THEN result["status"] ELSE "None"

NotFoundBody == [error |-> "Job not found"]

\* status_code without the test for an empty reply: a missing record is answered
\* like one that is still in progress
status_code_NoEmptyTest(job_data) ==
    IF result_get_status(job_data) = "completed" THEN 200
    ELSE IF result_get_status(job_data) = "failed" THEN 500
    ELSE 202

\* Lines 439-451: the status code for the reply of HGETALL (an empty reply when the
\* key does not exist)
status_code(job_data) ==
    IF DOMAIN job_data = {} THEN 404
    ELSE IF result_get_status(job_data) = "completed" THEN 200
    ELSE IF result_get_status(job_data) = "failed" THEN 500
    ELSE 202

\* Lines 438-451: one HGETALL, then the response
check_job_status(job_id) ==
    /\ qresp' = [job_id |-> job_id,
                 code |-> status_code(store[job_id]),
                 body |-> IF status_code(store[job_id]) = 404 THEN NotFoundBody
                          ELSE store[job_id]]
    /\ UNCHANGED <<store, ttl, files, queue, hvars, wvars, rvars, writes, delivered, svars>>

\* ------------------------------------------------- stream_job_progress

NotFoundFrame == [error |-> "Job not found"]
TimeoutFrame == [error |-> "Timeout waiting for job completion"]

\* "if not job_data" that never takes the branch
MissingNever(job_data) == FALSE

\* Line 465: HGETALL gave an empty reply
Missing(job_data) == DOMAIN job_data = {}

\* "if status != last_status" that always takes the branch
ChangedAlways(status, last) == TRUE

\* Line 474
Changed(status, last) == status # last

\* "if status in [...]" that never takes the branch
BreaksNever(status) == FALSE

\* Line 479
Breaks(status) == status \in {"completed", "failed"}

\* The final frame sent whatever retry_count is
AfterLoopAlways(retry, sent) == Append(sent, TimeoutFrame)

\* Lines 485-487: after the loop, the timeout frame when the retries are used up
AfterLoop(retry, sent) ==
    IF retry >= max_retries THEN Append(sent, TimeoutFrame) ELSE sent

\* Lines 463-487: one pass of the loop body, entered with last_status = last,
\* retry_count = retry and the frames sent so far; then, unless the pass breaks out
\* of the loop, the sleep, the increment and the loop test; and when the loop is
\* left, the lines after it
Iteration(job_id, last, retry, sent) ==
    LET job_data == store[job_id]
        status == result_get_status(job_data)
        emitted == IF Changed(status, last) THEN Append(sent, job_data) ELSE sent
    IN  IF Missing(job_data)
        THEN /\ frames' = AfterLoop(retry, Append(sent, NotFoundFrame))
             /\ last_status' = last
             /\ retry_count' = retry
             /\ spc' = "done"
        ELSE /\ last_status' = status
             /\ IF Breaks(status)
                THEN /\ frames' = AfterLoop(retry, emitted)
                     /\ retry_count' = retry
                     /\ spc' = "done"
                ELSE /\ retry_count' = retry + 1
                     /\ IF retry + 1 < max_retries
                        THEN frames' = emitted /\ spc' = "loop"
                        ELSE frames' = AfterLoop(retry + 1, emitted) /\ spc' = "done"

\* Lines 454-483: the response is iterated and generate() runs up to its first sleep
Open(job_id) ==
    /\ spc = "idle"
    /\ sjob' = job_id
    /\ sopen' = store[job_id]
    /\ sampled' = 1
    /\ Iteration(job_id, "None", 0, <<>>)
    /\ UNCHANGED <<store, ttl, files, queue, hvars, wvars, rvars, writes, delivered, qresp>>

\* Lines 463-483: generate() wakes from its sleep and runs up to the next one
Sample ==
    /\ spc = "loop"
    /\ sampled' = sampled + 1
    /\ Iteration(sjob, last_status, retry_count, frames)
    /\ UNCHANGED <<store, ttl, files, queue, hvars, wvars, rvars, writes, delivered, qresp,
                   sjob, sopen>>

\* ------------------------------------------------------ specifications

\* The asynchronous video path: submissions, workers, the store
Next ==
    \/ \E r \in VideoRequests : VideoAccept(r)
    \/ \E j \in JobIds : Enqueue(j)
    \/ \E w \in Workers : Worker(w)
    \/ \E j \in JobIds : Reclaim(j)

Spec == Init /\ [][Next]_vars

\* Threads are scheduled fairly: a request or a worker that can take its next
\* step takes it
Fairness ==
    /\ \A j \in JobIds : WF_vars(Enqueue(j))
    /\ \A w \in Workers : WF_vars(Worker(w))

FairSpec == Spec /\ Fairness

\* The requests of AllRequests by the branch of upload_and_compress they take (each
\* action keeps its own guard; the sets only spare evaluating it for every request
\* in every state)
TurnedAway == {r \in AllRequests : RejectReason(r) \notin {"none", "IndexError"}}
Raising == {r \in AllRequests : RejectReason(r) = "IndexError"}
Passing == AllRequests \ (TurnedAway \cup Raising)

\* The upload endpoint alone, over every request
NextUpload ==
    \/ \E r \in TurnedAway : Reject(r)
    \/ \E r \in Raising : Crash(r)
    \/ \E r \in Passing : ImagePath(r)
    \/ \E r \in Passing : VideoAccept(r)
    \/ \E j \in JobIds : Enqueue(j)

SpecUpload == Init /\ [][NextUpload]_vars

\* The video path over a Redis server that may drop keys
NextEvict ==
    \/ Next
    \/ \E j \in JobIds : Evict(j)

SpecEvict == Init /\ [][NextEvict]_vars

\* The video path with clients polling check_job_status
NextSnapshot ==
    \/ Next
    \/ \E j \in JobIds : check_job_status(j)

SpecSnapshot == Init /\ [][NextSnapshot]_vars

\* The job id the streaming client asks for: the id of the first submission (no
\* record is stored under it until that submission is accepted)
StreamIds == {1}

\* The video path with one client streaming a job's progress
NextStream ==
    \/ Next
    \/ \E j \in StreamIds : Open(j)
    \/ Sample

SpecStream == Init /\ [][NextStream]_vars

\* time.sleep returns and the server keeps iterating the response
FairSpecStream == SpecStream /\ Fairness /\ WF_vars(Sample)

\* ------------------------------------------------------------- claims

Present == {j \in JobIds : Exists(j)}

Held(j) == \E w \in Workers : Job(w) = j

InQueue(j) == Cardinality({i \in 1..Len(queue) : queue[i].job_id = j})

\* C1: the status values written to a job's record form a strictly forward walk
\* queued -> processing -> uploading -> completed|failed: the first write is queued,
\* every later write has a higher rank than the one before it, so no status is
\* written twice and nothing is written after completed or failed.
C1_StatusWritesMoveForward == \A j \in JobIds : writes[j].forward

C1_Witness ==
    /\ \E j \in JobIds : writes[j].last = "completed"
    /\ \E j \in JobIds : writes[j].last = "failed" /\ "error" \in DOMAIN store[j]
                         /\ store[j]["error"] = "str(e)"

\* C2: whenever a job's record has status completed or failed, neither its
\* temporary source file nor its transcoded output file exists.
C2_NoArtifactsOnceTerminal ==
    \A j \in Present :
        Status(j) \in Terminal => SrcPath(j) \notin files /\ OutPath(j) \notin files

\* C3: at every instant a record has the result fields exactly when its status is
\* completed and the error field exactly when its status is failed.
C3_ResultAndErrorMatchStatus ==
    \A j \in Present :
        /\ ("error" \in DOMAIN store[j]) <=> (Status(j) = "failed")
        /\ ({"cloudinary_url", "public_id"} \subseteq DOMAIN store[j]) <=> (Status(j) = "completed")

\* C4: the number of job records whose status is processing or uploading never
\* exceeds the number of workers.
C4_ActiveJobsAtMostWorkers ==
    Cardinality({j \in Present : Status(j) \in {"processing", "uploading"}}) <= MAX_WORKER_THREADS

C4_Witness ==
    /\ Cardinality({j \in Present : Status(j) \in {"processing", "uploading"}}) = MAX_WORKER_THREADS
    /\ Cardinality({j \in Present : Status(j) = "queued"}) >= 1
    /\ Cardinality(Present) > MAX_WORKER_THREADS

\* C5: under fair scheduling every accepted video submission (a record with status
\* queued) eventually has a terminal status written to its record.
C5_QueuedLeadsToTerminal ==
    \A j \in JobIds : (Status(j) = "queued") ~> (writes[j].last \in Terminal)

C5_Witness ==
    /\ MaxJobs > MAX_WORKER_THREADS
    /\ \A j \in JobIds : writes[j].last \in Terminal

PngNameJpegBytes == FileUpload(NamePng, BytesJPEG)

C7_RejectionChangesNothing ==
    [][ ( /\ nreq' = nreq + 1
          /\ resp'.n = nreq'
          /\ resp'.code = 400
          /\ resp'.body \in {"Unsupported file type",
                             "File content doesn't match its extension"} )
        => UNCHANGED <<store, ttl, queue, files>> ]_vars

C7_Witness ==
    /\ resp.n = nreq
    /\ resp.code = 400
    /\ resp.body = "File content doesn't match its extension"
    /\ Present # {}
    /\ queue # <<>>

\* The capacity the design gives the queue: the worker count times a configured multiplier
QUEUE_CAPACITY_MULTIPLIER == 1

QueueCapacity == MAX_WORKER_THREADS * QUEUE_CAPACITY_MULTIPLIER

\* C8: the number of pending work items never exceeds the configured capacity.
C8_QueueDepthAtMostCapacity == Len(queue) <= QueueCapacity

\* C9: a work item leaves the queue at most once, no two workers hold the same job,
\* and every item that was put on the queue is either still on it, once, or was
\* handed to a worker, once.
C9_SingleDelivery ==
    /\ \A j \in JobIds : delivered[j] <= 1
    /\ \A v, w \in Workers : (v # w /\ Job(v) # 0) => Job(v) # Job(w)
    /\ \A j \in JobIds : hpc[j] = "done" => InQueue(j) + delivered[j] = 1
    /\ \A j \in JobIds : hpc[j] # "done" => InQueue(j) + delivered[j] = 0
    /\ \A w \in Workers : Job(w) # 0 => delivered[Job(w)] = 1

C9_Witness ==
    /\ \A j \in JobIds : delivered[j] = 1
    /\ \A w \in Workers : Job(w) # 0

\* C10: once process_video_job has returned and the record has a terminal status, an
\* expiry is set on the record.
C10_TerminalRecordHasExpiry ==
    \A j \in Present : (Status(j) \in Terminal /\ ~Held(j)) => ttl[j]

\* C11: check_job_status reads the record once and writes nothing; a missing record
\* (never created, or reclaimed after its expiry: the reply is the same) is answered
\* 404 "Job not found", a completed record 200, a failed record 500, and a record
\* with any other status 202, each with the record as the body.
C11_SnapshotMapping ==
    [][ qresp' # qresp =>
          LET j == qresp'.job_id
          IN  /\ UNCHANGED <<store, ttl, queue, files>>
              /\ ~Exists(j) => qresp'.code = 404 /\ qresp'.body = NotFoundBody
              /\ Exists(j) => qresp'.body = store[j]
              /\ Status(j) = "completed" => qresp'.code = 200
              /\ Status(j) = "failed" => qresp'.code = 500
              /\ Status(j) \in {"queued", "processing", "uploading"} => qresp'.code = 202
      ]_vars

C11_Witness ==
    /\ qresp.code = 404
    /\ writes[qresp.job_id].last = "completed"
    /\ \E j \in JobIds : hpc[j] = "unused"

IsStatusFrame(f) == "status" \in DOMAIN f

\* The frames that carry a record, in the order they were sent
StatusFrames == SelectSeq(frames, IsStatusFrame)

\* C12: when the record has status completed as the stream is opened, the stream
\* sends exactly one frame, the completed record with its result, after one read,
\* and closes; no not-found and no timeout frame follows.
C12_CompletedAtOpenOneFrame ==
    (spc # "idle" /\ result_get_status(sopen) = "completed") =>
        /\ frames = <<sopen>>
        /\ {"cloudinary_url", "public_id"} \subseteq DOMAIN frames[1]
        /\ spc = "done"
        /\ sampled = 1

C12_Witness ==
    /\ spc = "done"
    /\ result_get_status(sopen) = "completed"
    /\ Len(frames) = 1
    /\ ~Exists(sjob)

\* C13: when there is no record under the job id as the stream is opened, the
\* stream sends exactly one frame, the not-found message, and closes after that one
\* read: it never sleeps (retry_count stays 0) and sends no timeout frame.
C13_UnknownJobOneFrame ==
    (spc # "idle" /\ sopen = NoHash) =>
        /\ frames = <<NotFoundFrame>>
        /\ spc = "done"
        /\ retry_count = 0
        /\ sampled = 1

C13_Witness ==
    /\ spc = "done"
    /\ sopen = NoHash
    /\ frames = <<NotFoundFrame>>
    /\ Exists(sjob)

\* C14: the first observation is always sent; after it a frame is sent only when
\* the sampled status differs from the one sent last, so consecutive record frames
\* never carry the same status; and the statuses sent follow the order in which the
\* job's status was written: each has a higher rank than the one before it, none is
\* ahead of the last status written, and a terminal one is the one written.
C14_FramesFollowTransitions ==
    /\ spc # "idle" => /\ frames # <<>>
                       /\ frames[1] = IF sopen = NoHash THEN NotFoundFrame ELSE sopen
    /\ \A i \in 1..(Len(frames) - 1) : IsStatusFrame(frames[i])
    /\ \A i \in 1..(Len(StatusFrames) - 1) :
          /\ StatusFrames[i].status # StatusFrames[i + 1].status
          /\ Rank(StatusFrames[i].status) < Rank(StatusFrames[i + 1].status)
    /\ StatusFrames # <<>> =>
          LET sent == StatusFrames[Len(StatusFrames)].status
          IN  /\ last_status = sent
              /\ Rank(sent) <= Rank(writes[sjob].last)
              /\ sent \in Terminal => sent = writes[sjob].last
    /\ Len(StatusFrames) <= sampled

C14_Witness ==
    /\ Len(StatusFrames) = 2
    /\ Rank(StatusFrames[2].status) > Rank(StatusFrames[1].status) + 1
    /\ sampled > Len(StatusFrames)

\* C18: every stream ends. generate() reads the record at most max_retries times;
\* once it has returned, the last frame is a record with status completed or
\* failed, or the not-found message, or the timeout message; the timeout message
\* is sent exactly when max_retries reads went by without a terminal status or a
\* missing record; and no frame follows a frame with a terminal status.
C18_StreamTerminates ==
    /\ [](/\ sampled <= max_retries
          /\ spc = "done" =>
                LET final == frames[Len(frames)]
                IN  \/ IsStatusFrame(final) /\ final.status \in Terminal
                    \/ final = NotFoundFrame
                    \/ final = TimeoutFrame
          /\ spc = "done" =>
                ( (frames[Len(frames)] = TimeoutFrame)
                    <=> (/\ retry_count = max_retries
                         /\ sampled = max_retries
                         /\ last_status \notin Terminal
                         /\ NotFoundFrame \notin Range(frames)) )
          /\ spc # "done" => TimeoutFrame \notin Range(frames)
          /\ \A i \in 1..(Len(frames) - 1) :
                IsStatusFrame(frames[i]) /\ frames[i].status \notin Terminal)
    /\ ((spc = "loop") ~> (spc = "done"))

C18_Witness ==
    /\ spc = "done"
    /\ frames[Len(frames)] = TimeoutFrame
    /\ Len(frames) = 3
    /\ writes[sjob].last \in Terminal

\* The worker threads that are running: waiting on the queue or inside process_video_job
LiveWorkers == {w \in Workers : wpc[w] # "exited"}

\* C15: an exception raised while a worker processes an item ends no worker thread
\* and touches no other item: every worker thread is running in every state; the
\* handler's steps change only that worker and the record of its job; once the
\* handler has written, the record has status failed and the text of the
\* exception; and the worker gets back to waiting on the queue.
C15_FailureLeavesWorkersRunning ==
    /\ [](/\ Cardinality(LiveWorkers) = MAX_WORKER_THREADS
          /\ \A w \in Workers :
                wpc[w] = "except_expire" =>
                    /\ Status(Job(w)) = "failed"
                    /\ store[Job(w)]["error"] = "str(e)")
    /\ [][\A w \in Workers :
            (wpc[w] \in {"except", "except_expire"} /\ wpc'[w] # wpc[w]) =>
                /\ \A v \in Workers \ {w} : wpc'[v] = wpc[v] /\ wjob'[v] = wjob[v]
                /\ \A j \in JobIds \ {Job(w)} : store'[j] = store[j] /\ ttl'[j] = ttl[j]
                /\ UNCHANGED <<queue, files>>]_vars
    /\ \A w \in Workers : (wpc[w] = "except") ~> (wpc[w] = "get")

C15_Witness ==
    /\ MaxJobs > MAX_WORKER_THREADS
    /\ \A j \in JobIds : /\ Status(j) = "failed"
                         /\ "error" \in DOMAIN store[j]
                         /\ store[j]["error"] = "str(e)"
    /\ \A w \in Workers : wpc[w] = "get"

\* The requests that pass validation with an image extension
ImageRequests == {r \in Passing : ResourceType(r) = "image"}

\* C16: a submission taken up by the image path is answered in the same step, 200
\* on success and 500 when the compression or the upload fails, and in every case
\* leaves the job store, the expiries, the work queue, the temporary files and
\* the set of job ids in use as they were.
C16_ImagePathChangesNothing ==
    [][ (nreq' = nreq + 1 /\ req' \in ImageRequests) =>
          /\ UNCHANGED <<store, ttl, queue, files, hpc>>
          /\ resp'.n = nreq'
          /\ \/ resp'.code = 200 /\ resp'.body = "Image compressed and uploaded successfully"
             \/ resp'.code = 500 /\ resp'.body \in {"Failed to compress image",
                                                    "An internal server error occurred"}
      ]_vars

C16_Witness ==
    /\ req \in ImageRequests
    /\ resp.n = nreq
    /\ resp.code = 500
    /\ resp.body = "An internal server error occurred"
    /\ Present # {}
    /\ queue # <<>>

\* C17: a worker's update of a record that does not exist (never created, reclaimed
\* or dropped) leaves the store without a record under that id: no step of a worker
\* that holds a job whose record is missing creates one.
C17_UpdateOfMissingRecordChangesNothing ==
    [][\A w \in Workers :
          (Job(w) # 0 /\ ~Exists(Job(w))) => store'[Job(w)] = store[Job(w)]]_vars

\* The categories the claim lets a signature stand for: both for the RIFF prefix,
\* else the one the table gives
ClaimedCategories(content) ==
    IF StartsWith(content, SigRIFF) THEN {"image", "video"} ELSE {expected_type(content)}

\* C19: a file with an allowed extension whose leading bytes match a signature is
\* turned away with 400 exactly when the category of its extension is not one the
\* signature stands for; a RIFF file is accepted as .webp and as .avi.
C19_RiffAcceptedForEitherCategory ==
    ( /\ resp.n = nreq
      /\ req.has_file
      /\ allowed_file(req.filename)
      /\ ResourceType(req) \in {"image", "video"}
      /\ expected_type(req.content) # "unknown" ) =>
        ((resp.code = 400) <=> (ResourceType(req) \notin ClaimedCategories(req.content)))

C21_RecordBeforeEnqueue ==
    /\ [](\A j \in JobIds :
            /\ hpc[j] = "unused" =>
                  /\ ~Exists(j)
                  /\ writes[j].last = "none"
                  /\ InQueue(j) = 0 /\ delivered[j] = 0 /\ ~Held(j)
            /\ hpc[j] = "recorded" =>
                  /\ Status(j) = "queued"
                  /\ writes[j].last = "queued"
                  /\ InQueue(j) = 0 /\ delivered[j] = 0 /\ ~Held(j)
            /\ hpc[j] = "done" =>
                  /\ InQueue(j) + delivered[j] = 1
                  /\ writes[j].last # "none"
                  /\ writes[j].forward
            /\ InQueue(j) > 0 => Status(j) = "queued" /\ store[j]["job_id"] = j)
    /\ [][\A j \in JobIds :
            /\ (hpc[j] = "unused" /\ hpc'[j] # "unused") =>
                  /\ hpc'[j] = "recorded"
                  /\ store'[j]["status"] = "queued" /\ store'[j]["job_id"] = j
                  /\ \A k \in JobIds \ {j} : store'[k] = store[k] /\ hpc'[k] = hpc[k]
                  /\ UNCHANGED <<queue, wvars>>
            /\ (hpc[j] = "recorded" /\ hpc'[j] # "recorded") =>
                  /\ hpc'[j] = "done"
                  /\ Len(queue') = Len(queue) + 1
                  /\ queue'[Len(queue')].job_id = j
                  /\ resp'.code = 202 /\ resp'.job_id = j /\ resp'.n = hctx[j].n
                  /\ UNCHANGED <<store, wvars>>]_vars

C21_Witness ==
    /\ \E j \in JobIds : /\ hpc[j] = "done"
                          /\ resp.code = 202 /\ resp.job_id = j
                          /\ InQueue(j) = 1
                          /\ Status(j) = "queued"
    /\ \E j \in JobIds : hpc[j] = "recorded"
    /\ \E w \in Workers : wpc[w] \notin {"get", "exited"}

====
